---- MODULE Spec2Model ----
(***************************************************************************)
(* A model of the sysfs / ioctl peripheral layer in src/src/sys: the SPI   *)
(* bus object and its ioctl request-code encoder (spi.rs), the I2C bus     *)
(* object (i2c.rs), the GPIO pin (gpio.rs) and the PWM channel (pwm.rs).   *)
(*                                                                         *)
(* Machine words are modelled as the set of their 1-bit positions, so     *)
(* that 32- and 64-bit values (request codes such as 0x80016B01, buffer   *)
(* lengths of 2^32 bytes) stay inside the model checker's integer range.  *)
(* The kernel is the environment: an ioctl or a sysfs access may fail.     *)
(***************************************************************************)
EXTENDS Integers, Sequences, FiniteSets, TLC

VARIABLES
    ioc_fn,      \* the encoder use made: "none" (not yet), "ioc" or a private ioctl fn
    ioc_req,     \* the operands last given to ioc!: [dir, ty, nr, sz]
    ioc_code,    \* the request code ioc! produced (a word: a set of bit positions)
    spi_open,    \* an SPI bus object exists (its device node is open)
    spi_mode,    \* the kernel's mode byte of the spidev device, 0..255
    spi_op,      \* the SPI operation last called: [name, arg]
    spi_res,     \* what it returned: [tag: "Ok" | "Err", val]
    xfer_tx,     \* the caller's tx buffer: [ptr, len], words
    xfer_rx,     \* the caller's rx buffer: [ptr, len], words
    xfer_op,     \* the spi_ioc_transfer constructor called, "none" before
    xfer_res,    \* its outcome: [tag: "none" | "Ok" | "Panic", desc: [tx_buf, rx_buf, len]]
    i2c_open,    \* an I2C bus object exists
    i2c_funcs,   \* its field funcs: the capabilities bitmask read by I2C::new
    i2c_addr_10bit,  \* its field addr_10bit
    i2c_address, \* its field address
    i2c_op,      \* the I2C operation last called: [name, arg]
    i2c_res,     \* what it returned: [tag: "Ok" | "Err", val]
    i2c_ioctls,  \* the ioctls that call issued, in order: <<[req, arg]>>
    i2c_bufs,    \* the buffers that call was given: [wptr, wlen, rptr, rlen]
    i2c_rdwr,    \* the RdwrRequest that call passed to I2C_RDWR: <<[nmsgs, segments]>>, else <<>>
    i2c_address_set,  \* history: a set_slave_address has succeeded on this bus object
    gpio_exported,   \* the directory /sys/class/gpio/gpio<num> exists
    pwm_exported,    \* the directory /sys/class/pwm/pwmchip<chip>/pwm<number> exists
    sys_op,      \* the GPIO / PWM operation last called: [name, arg]
    sys_read,    \* the contents the kernel gave that call's read, <<>> if it read nothing
    sys_writes,  \* the sysfs writes that call attempted, in order: <<[file, data, ok]>>
    sys_res,     \* what it returned: [tag: "Ok" | "Err" | "Panic", val]
    att_files,   \* the pin's attribute files, each holding what was last written to it
    att_set,     \* per attribute, {the argument of the last setter that succeeded}, {} before
    att_op,      \* the attribute getter / setter last called: [name, attr, arg, io]
    att_res      \* what it returned: [tag: "Ok" | "Err", val]

iocVars == <<ioc_fn, ioc_req, ioc_code>>
spiVars == <<spi_open, spi_mode, spi_op, spi_res>>
xferVars == <<xfer_tx, xfer_rx, xfer_op, xfer_res>>
i2cVars == <<i2c_open, i2c_funcs, i2c_addr_10bit, i2c_address, i2c_op, i2c_res, i2c_ioctls,
             i2c_bufs, i2c_rdwr, i2c_address_set>>
sysVars == <<gpio_exported, pwm_exported, sys_op, sys_read, sys_writes, sys_res>>
attVars == <<att_files, att_set, att_op, att_res>>
vars == <<iocVars, spiVars, xferVars, i2cVars, sysVars, attVars>>

\* What a component's actions leave alone: the other components.
notIoc == <<spiVars, xferVars, i2cVars, sysVars, attVars>>
notSpi == <<iocVars, xferVars, i2cVars, sysVars, attVars>>
notXfer == <<iocVars, spiVars, i2cVars, sysVars, attVars>>
notI2c == <<iocVars, spiVars, xferVars, sysVars, attVars>>
notSys == <<iocVars, spiVars, xferVars, i2cVars, attVars>>
notAtt == <<iocVars, spiVars, xferVars, i2cVars, sysVars>>

---------------------------------------------------------------------------
(* Words                                                                   *)

\* The 1-bit positions of a natural number below 2^31.
Bits(n) == {i \in 0..30 : (n \div (2^i)) % 2 = 1}

RECURSIVE Val(_)
\* The natural number a word within bits 0..30 stands for.
Val(w) == IF w = {} THEN 0
          ELSE LET i == CHOOSE j \in w : TRUE IN (2^i) + Val(w \ {i})

BitAnd(a, b) == a \cap b
BitOr(a, b) == a \cup b

\* A word written as hexadecimal digits, most significant first.
Hex(ds) == UNION {{4 * (Len(ds) - k) + i : i \in Bits(ds[k])} : k \in 1..Len(ds)}

---------------------------------------------------------------------------
(* spi.rs, mod private: the ioctl request-code encoder                     *)

\* IoctlNumType is c_int on musl (32 bits) and c_ulong on gnu (32 or 64 bits);
\* every code the encoder builds fits 32 bits, so the narrowest is modelled.
IoctlNumBits == 32

\* `x as IoctlNumType`
AsIoctlNum(n) == Bits(n) \cap (0..(IoctlNumBits - 1))

\* `w << n` on IoctlNumType: bits shifted past the width are lost.
Shl(w, n) == {i + n : i \in w} \cap (0..(IoctlNumBits - 1))

\* `w >> n`
Shr(w, n) == {i - n : i \in {j \in w : j >= n}}

SPI_IOC_MAGIC == 107
SPI_IOC_NR_TRANSFER == 0
SPI_IOC_NR_MODE == 1
SPI_IOC_NR_LSB_FIRST == 2
SPI_IOC_NR_BITS_PER_WORD == 3
SPI_IOC_NR_MAX_SPEED_HZ == 4
SPI_IOC_NR_MODE32 == 5

NONE == 0
READ == 2
WRITE == 1
SIZEBITS == 14
DIRBITS == 2
NRBITS == 8
TYPEBITS == 8

NRSHIFT == 0
TYPESHIFT == NRSHIFT + NRBITS
SIZESHIFT == TYPESHIFT + TYPEBITS
DIRSHIFT == SIZESHIFT + SIZEBITS

NRMASK == AsIoctlNum((2^NRBITS) - 1)
TYPEMASK == AsIoctlNum((2^TYPEBITS) - 1)
SIZEMASK == AsIoctlNum((2^SIZEBITS) - 1)
DIRMASK == AsIoctlNum((2^DIRBITS) - 1)

\* A slip that forgets the masks: a wide operand spills into the next field.
ioc_unmasked(dir, ty, nr, sz) ==
    BitOr(BitOr(BitOr(Shl(AsIoctlNum(dir), DIRSHIFT),
                      Shl(AsIoctlNum(ty), TYPESHIFT)),
                Shl(AsIoctlNum(nr), NRSHIFT)),
          Shl(AsIoctlNum(sz), SIZESHIFT))

\* A slip that packs the fields in the order direction, type, number, size.
ioc_size_last(dir, ty, nr, sz) ==
    BitOr(BitOr(BitOr(Shl(BitAnd(AsIoctlNum(dir), DIRMASK), DIRSHIFT),
                      Shl(BitAnd(AsIoctlNum(ty), TYPEMASK), SIZEBITS + NRBITS)),
                Shl(BitAnd(AsIoctlNum(nr), NRMASK), SIZEBITS)),
          Shl(BitAnd(AsIoctlNum(sz), SIZEMASK), 0))

\* macro ioc!
ioc(dir, ty, nr, sz) ==
    BitOr(BitOr(BitOr(Shl(BitAnd(AsIoctlNum(dir), DIRMASK), DIRSHIFT),
                      Shl(BitAnd(AsIoctlNum(ty), TYPEMASK), TYPESHIFT)),
                Shl(BitAnd(AsIoctlNum(nr), NRMASK), NRSHIFT)),
          Shl(BitAnd(AsIoctlNum(sz), SIZEMASK), SIZESHIFT))

\* A slip that builds read codes with the write direction.
request_code_read_as_write(ty, nr, sz) == ioc(WRITE, ty, nr, sz)

request_code_read(ty, nr, sz) == ioc(READ, ty, nr, sz)

request_code_write(ty, nr, sz) == ioc(WRITE, ty, nr, sz)

\* std::mem::size_of::<$ty>() for the scalars the SPI ioctls carry
size_of(ty) == IF ty = "u8" THEN 1 ELSE 4

\* The private ioctl functions the macros ioctl_read! / ioctl_write_ptr! declare
\* for scalars: [macro, ioty, nr, ty].
SpiIoctlFns ==
    [ get_mode_u8       |-> [macro |-> "ioctl_read",      nr |-> SPI_IOC_NR_MODE,          ty |-> "u8"],
      set_mode_u8       |-> [macro |-> "ioctl_write_ptr", nr |-> SPI_IOC_NR_MODE,          ty |-> "u8"],
      get_mode_u32      |-> [macro |-> "ioctl_read",      nr |-> SPI_IOC_NR_MODE32,        ty |-> "u32"],
      set_mode32        |-> [macro |-> "ioctl_write_ptr", nr |-> SPI_IOC_NR_MODE32,        ty |-> "u32"],
      get_lsb_first     |-> [macro |-> "ioctl_read",      nr |-> SPI_IOC_NR_LSB_FIRST,     ty |-> "u8"],
      set_lsb_first     |-> [macro |-> "ioctl_write_ptr", nr |-> SPI_IOC_NR_LSB_FIRST,     ty |-> "u8"],
      get_bits_per_word |-> [macro |-> "ioctl_read",      nr |-> SPI_IOC_NR_BITS_PER_WORD, ty |-> "u8"],
      set_bits_per_word |-> [macro |-> "ioctl_write_ptr", nr |-> SPI_IOC_NR_BITS_PER_WORD, ty |-> "u8"],
      get_max_speed_hz  |-> [macro |-> "ioctl_read",      nr |-> SPI_IOC_NR_MAX_SPEED_HZ,  ty |-> "u32"],
      set_max_speed_hz  |-> [macro |-> "ioctl_write_ptr", nr |-> SPI_IOC_NR_MAX_SPEED_HZ,  ty |-> "u32"] ]

\* The operands a private ioctl function hands to ioc! (macros ioctl_read!,
\* ioctl_write_ptr! through request_code_read! / request_code_write!).
ioctl_operands(fn) ==
    LET d == SpiIoctlFns[fn]
    IN  [dir |-> IF d.macro = "ioctl_read" THEN READ ELSE WRITE,
         ty |-> SPI_IOC_MAGIC, nr |-> d.nr, sz |-> size_of(d.ty)]

\* The request code a private ioctl function passes to ioctl(2).
ioctl_request(fn) ==
    LET d == SpiIoctlFns[fn]
    IN  IF d.macro = "ioctl_read"
        THEN request_code_read(SPI_IOC_MAGIC, d.nr, size_of(d.ty))
        ELSE request_code_write(SPI_IOC_MAGIC, d.nr, size_of(d.ty))

\* Operands tried on the encoder: every direction value up to MaxDir, and for
\* each other field its extremes and values up to OverRange past its width.
MaxDir == 4
OverRange == 1
TypeOperands == {0, SPI_IOC_MAGIC, 255} \cup {256 + k : k \in 0..OverRange} \cup {256 + SPI_IOC_MAGIC}
NrOperands == (0..SPI_IOC_NR_MODE32) \cup {255} \cup {256 + k : k \in 0..OverRange}
SizeOperands == {0, 1, 4, 32, 16383} \cup {16384 + k : k \in 0..OverRange} \cup {65535}

\* The operands are drawn first; each behaviour then expands ioc! once.
InitIoc ==
    /\ ioc_fn = "none"
    /\ ioc_req \in [dir : 0..MaxDir, ty : TypeOperands, nr : NrOperands, sz : SizeOperands]
    /\ ioc_code = {}

\* One expansion of ioc! on the operands drawn.
Encode ==
    /\ ioc_fn = "none"
    /\ ioc_fn' = "ioc"
    /\ ioc_code' = ioc(ioc_req.dir, ioc_req.ty, ioc_req.nr, ioc_req.sz)
    /\ UNCHANGED <<ioc_req, notIoc>>

\* One call of a private SPI ioctl function: the request code it builds.
CallSpiIoctl(fn) ==
    /\ ioc_fn = "none"
    /\ ioc_fn' = fn
    /\ ioc_req' = ioctl_operands(fn)
    /\ ioc_code' = ioctl_request(fn)
    /\ UNCHANGED notIoc

NextIoc ==
    \/ Encode
    \/ \E fn \in DOMAIN SpiIoctlFns : CallSpiIoctl(fn)

---------------------------------------------------------------------------
(* spi.rs: the SPI bus object                                              *)

SPI_CS_HIGH == 4

\* `!w` on a u8
NotU8(w) == Bits(255) \ w

\* enum Mode, as its u8 discriminant
Modes == 0..3

\* enum Polarity, as its discriminant
ActiveLow == 0
ActiveHigh == 1

\* SPI::mode, after get_mode_u8 returned `byte`: the Mode it reports.
mode(byte) ==
    LET m == Val(BitAnd(Bits(byte), Bits(3)))
    IN  CASE m = 1 -> 1
          [] m = 2 -> 2
          [] m = 3 -> 3
          [] OTHER -> 0

\* SPI::set_mode: the byte written when the kernel's byte is `byte`. old_mode is
\* the Mode that self.mode() returned, not the byte read.
set_mode_byte(byte, m) ==
    LET old_mode == mode(byte)
    IN  Val(BitOr(BitAnd(Bits(old_mode), NotU8(Bits(3))), Bits(m)))

\* SPI::ss_polarity
ss_polarity(byte) ==
    IF Val(BitAnd(Bits(byte), Bits(SPI_CS_HIGH))) = 0 THEN ActiveLow ELSE ActiveHigh

\* SPI::set_ss_polarity: the byte written.
set_ss_polarity_byte(byte, polarity) ==
    IF polarity = ActiveHigh
    THEN Val(BitOr(Bits(byte), Bits(SPI_CS_HIGH)))
    ELSE Val(BitAnd(Bits(byte), NotU8(Bits(SPI_CS_HIGH))))

Ok(v) == [tag |-> "Ok", val |-> v]
Err == [tag |-> "Err", val |-> 0]

\* Before SPI::new: the kernel's mode byte is whatever the device tree or an
\* earlier user of the device left.
InitSpi ==
    /\ spi_open = FALSE
    /\ spi_mode \in 0..255
    /\ spi_op = [name |-> "none", arg |-> 0]
    /\ spi_res = Ok(0)

\* SPI::new: open, set_mode, set_bits_per_word(8), set_speed_hz; the first
\* failure is returned and the object is not built.
SpiNew(m) ==
    /\ ~spi_open
    /\ spi_op' = [name |-> "new", arg |-> m]
    /\ \/ \* open or get_mode_u8 or set_mode_u8 fails
          /\ spi_res' = Err
          /\ UNCHANGED <<spi_open, spi_mode, notSpi>>
       \/ \* set_mode succeeded, set_bits_per_word or set_speed_hz fails
          /\ spi_res' = Err
          /\ spi_mode' = set_mode_byte(spi_mode, m)
          /\ UNCHANGED spi_open
       \/ /\ spi_res' = Ok(0)
          /\ spi_mode' = set_mode_byte(spi_mode, m)
          /\ spi_open' = TRUE
    /\ UNCHANGED notSpi

\* SPI::mode
SpiMode ==
    /\ spi_open
    /\ spi_op' = [name |-> "mode", arg |-> 0]
    /\ \/ spi_res' = Err
       \/ spi_res' = Ok(mode(spi_mode))
    /\ UNCHANGED <<spi_open, spi_mode, notSpi>>

\* SPI::set_mode
SpiSetMode(m) ==
    /\ spi_open
    /\ spi_op' = [name |-> "set_mode", arg |-> m]
    /\ \/ \* get_mode_u8 or set_mode_u8 fails
          /\ spi_res' = Err
          /\ UNCHANGED spi_mode
       \/ /\ spi_res' = Ok(0)
          /\ spi_mode' = set_mode_byte(spi_mode, m)
    /\ UNCHANGED <<spi_open, notSpi>>

\* SPI::ss_polarity
SpiSsPolarity ==
    /\ spi_open
    /\ spi_op' = [name |-> "ss_polarity", arg |-> 0]
    /\ \/ spi_res' = Err
       \/ spi_res' = Ok(ss_polarity(spi_mode))
    /\ UNCHANGED <<spi_open, spi_mode, notSpi>>

\* SPI::set_ss_polarity
SpiSetSsPolarity(polarity) ==
    /\ spi_open
    /\ spi_op' = [name |-> "set_ss_polarity", arg |-> polarity]
    /\ \/ /\ spi_res' = Err
          /\ UNCHANGED spi_mode
       \/ /\ spi_res' = Ok(0)
          /\ spi_mode' = set_ss_polarity_byte(spi_mode, polarity)
    /\ UNCHANGED <<spi_open, notSpi>>

\* Dropping the SPI object closes the device; the kernel keeps the mode byte.
SpiDrop ==
    /\ spi_open
    /\ spi_open' = FALSE
    /\ spi_op' = [name |-> "drop", arg |-> 0]
    /\ spi_res' = Ok(0)
    /\ UNCHANGED <<spi_mode, notSpi>>

NextSpi ==
    \/ \E m \in Modes : SpiNew(m)
    \/ SpiMode
    \/ \E m \in Modes : SpiSetMode(m)
    \/ SpiSsPolarity
    \/ \E polarity \in {ActiveLow, ActiveHigh} : SpiSetSsPolarity(polarity)
    \/ SpiDrop

---------------------------------------------------------------------------
(* spi.rs, mod private: the transfer descriptor spi_ioc_transfer            *)

\* `w as u32`, `w as u64`; slice lengths and addresses are usize, 64 bits on the
\* widest build.
AsU32(w) == w \cap (0..31)
AsU64(w) == w \cap (0..63)

\* Default::default() of spi_ioc_transfer: every field zero (the overrides
\* speed_hz, delay_usecs, bits_per_word, cs_change, pad stay zero in all three
\* constructors and are left out).
DefaultTransfer == [tx_buf |-> {}, rx_buf |-> {}, len |-> {}]

\* spi_ioc_transfer::read
transfer_read(buff) ==
    [DefaultTransfer EXCEPT !.rx_buf = AsU64(buff.ptr), !.len = AsU32(buff.len)]

\* spi_ioc_transfer::write
transfer_write(buff) ==
    [DefaultTransfer EXCEPT !.tx_buf = AsU64(buff.ptr), !.len = AsU32(buff.len)]

\* spi_ioc_transfer::read_write past its assert_eq!
transfer_read_write(tx_buf, rx_buf) ==
    [DefaultTransfer EXCEPT !.rx_buf = AsU64(rx_buf.ptr), !.tx_buf = AsU64(tx_buf.ptr),
                            !.len = AsU32(tx_buf.len)]

\* Buffers tried: lengths 0..MaxLen, and the same past 2^16 and past 2^32;
\* addresses of MaxPtr distinct pages.
MaxLen == 2
MaxPtr == 2
BufLens == {Bits(k) : k \in 0..MaxLen} \cup {{16} \cup Bits(k) : k \in 0..MaxLen}
           \cup {{32} \cup Bits(k) : k \in 0..MaxLen}
BufPtrs == {{12 + i : i \in Bits(k)} : k \in 1..MaxPtr}
Buffers == [ptr : BufPtrs, len : BufLens]

NoTransfer == [tag |-> "none", desc |-> DefaultTransfer]

\* The two buffers are drawn first; each behaviour then builds one descriptor.
InitXfer ==
    /\ xfer_tx \in Buffers
    /\ xfer_rx \in Buffers
    /\ xfer_op = "none"
    /\ xfer_res = NoTransfer

XferRead ==
    /\ xfer_op = "none"
    /\ xfer_op' = "read"
    /\ xfer_res' = [tag |-> "Ok", desc |-> transfer_read(xfer_rx)]
    /\ UNCHANGED <<xfer_tx, xfer_rx, notXfer>>

XferWrite ==
    /\ xfer_op = "none"
    /\ xfer_op' = "write"
    /\ xfer_res' = [tag |-> "Ok", desc |-> transfer_write(xfer_tx)]
    /\ UNCHANGED <<xfer_tx, xfer_rx, notXfer>>

\* spi_ioc_transfer::read_write: assert_eq! panics on unequal lengths.
XferReadWrite ==
    /\ xfer_op = "none"
    /\ xfer_op' = "read_write"
    /\ \/ /\ xfer_tx.len # xfer_rx.len
          /\ xfer_res' = [tag |-> "Panic", desc |-> DefaultTransfer]
       \/ /\ xfer_tx.len = xfer_rx.len
          /\ xfer_res' = [tag |-> "Ok", desc |-> transfer_read_write(xfer_tx, xfer_rx)]
    /\ UNCHANGED <<xfer_tx, xfer_rx, notXfer>>

NextXfer ==
    \/ XferRead
    \/ XferWrite
    \/ XferReadWrite

---------------------------------------------------------------------------
(* i2c.rs: the I2C bus object                                              *)

FUNC_I2C == 1
FUNC_10BIT_ADDR == 2
FUNC_PROTOCOL_MANGLING == 4
FUNC_SMBUS_PEC == 8
FUNC_NOSTART == 16
FUNC_SLAVE == 32

I2C_SLAVE == 1795
I2C_TENBIT == 1796
I2C_FUNCS == 1797
I2C_TIMEOUT == 1794
I2C_RDWR == 1799
I2C_PEC == 1800

RDWR_FLAG_RD == 1
RDWR_FLAG_TEN == 16

\* Capabilities::i2c, slave, protocol_mangling, nostart, smbus_pec
i2c(funcs) == Val(BitAnd(Bits(funcs), Bits(FUNC_I2C))) > 0

\* A slip that tests the NOSTART bit for slave().
slave_tests_nostart(funcs) == Val(BitAnd(Bits(funcs), Bits(FUNC_NOSTART))) > 0

slave(funcs) == Val(BitAnd(Bits(funcs), Bits(FUNC_SLAVE))) > 0

protocol_mangling(funcs) == Val(BitAnd(Bits(funcs), Bits(FUNC_PROTOCOL_MANGLING))) > 0

nostart(funcs) == Val(BitAnd(Bits(funcs), Bits(FUNC_NOSTART))) > 0

smbus_pec(funcs) == Val(BitAnd(Bits(funcs), Bits(FUNC_SMBUS_PEC))) > 0

\* Capabilities::addr_10bit
addr_10bit(funcs) == Val(BitAnd(Bits(funcs), Bits(FUNC_10BIT_ADDR))) > 0

\* A slip that drops the test of the reserved block 0b1111xxx.
invalid_slave_address_no_reserved(ten, slave_address) ==
    \/ (~ten /\ slave_address > 127)
    \/ (ten /\ slave_address > 1023)

\* I2C::set_slave_address, its filter: TRUE when the address is refused.
invalid_slave_address(ten, slave_address) ==
    \/ (~ten /\ ((slave_address \div 8) = 15 \/ slave_address > 127))
    \/ (ten /\ slave_address > 1023)

\* Slave addresses tried (u16): those within AddrSpan of each edge of the legal
\* ranges, and the extremes.
AddrSpan == 2
AddrEdges == {8, 120, 128, 1024}
SlaveAddresses ==
    {0, 65535} \cup UNION {(e - AddrSpan - 1)..(e + AddrSpan) : e \in AddrEdges}

\* Capability bitmasks an adapter may report.
MaxFuncs == 3
FuncsReported == (0..MaxFuncs) \cup {33, 63}

\* A call that takes no buffer.
NoBufs == [wptr |-> 0, wlen |-> 0, rptr |-> 0, rlen |-> 0]

InitI2c ==
    /\ i2c_open = FALSE
    /\ i2c_funcs = 0
    /\ i2c_addr_10bit = FALSE
    /\ i2c_address = 0
    /\ i2c_op = [name |-> "none", arg |-> 0]
    /\ i2c_res = Ok(0)
    /\ i2c_ioctls = <<>>
    /\ i2c_bufs = NoBufs
    /\ i2c_rdwr = <<>>
    /\ i2c_address_set = FALSE

\* I2C::new: open, ioctl I2C_FUNCS, then set_addr_10bit(false) when the adapter
\* reports 10-bit support; the first failure is returned and no object is built.
I2cNew(funcs) ==
    /\ ~i2c_open
    /\ i2c_op' = [name |-> "new", arg |-> 0]
    /\ \/ \* the open fails
          /\ i2c_res' = Err
          /\ i2c_ioctls' = <<>>
          /\ UNCHANGED <<i2c_open, i2c_funcs, i2c_addr_10bit, i2c_address>>
       \/ \* the ioctl I2C_FUNCS fails
          /\ i2c_res' = Err
          /\ i2c_ioctls' = <<[req |-> I2C_FUNCS, arg |-> 0]>>
          /\ UNCHANGED <<i2c_open, i2c_funcs, i2c_addr_10bit, i2c_address>>
       \/ \* set_addr_10bit(false) fails in its ioctl
          /\ addr_10bit(funcs)
          /\ i2c_res' = Err
          /\ i2c_ioctls' = <<[req |-> I2C_FUNCS, arg |-> 0], [req |-> I2C_TENBIT, arg |-> 0]>>
          /\ UNCHANGED <<i2c_open, i2c_funcs, i2c_addr_10bit, i2c_address>>
       \/ /\ i2c_res' = Ok(0)
          /\ i2c_ioctls' = IF addr_10bit(funcs)
                           THEN <<[req |-> I2C_FUNCS, arg |-> 0], [req |-> I2C_TENBIT, arg |-> 0]>>
                           ELSE <<[req |-> I2C_FUNCS, arg |-> 0]>>
          /\ i2c_open' = TRUE
          /\ i2c_funcs' = funcs
          /\ i2c_addr_10bit' = FALSE
          /\ i2c_address' = 0
    /\ i2c_address_set' = FALSE
    /\ i2c_bufs' = NoBufs
    /\ i2c_rdwr' = <<>>
    /\ UNCHANGED notI2c

\* A slip that stores the address before the ioctl is known to have succeeded.
I2cSetSlaveAddress_store_first(slave_address) ==
    /\ i2c_open
    /\ i2c_op' = [name |-> "set_slave_address", arg |-> slave_address]
    /\ i2c_address' = slave_address
    /\ i2c_ioctls' = <<[req |-> I2C_SLAVE, arg |-> slave_address]>>
    /\ \/ i2c_res' = Err
       \/ i2c_res' = Ok(0)
    /\ i2c_address_set' = TRUE
    /\ i2c_bufs' = NoBufs
    /\ i2c_rdwr' = <<>>
    /\ UNCHANGED <<i2c_open, i2c_funcs, i2c_addr_10bit, notI2c>>

\* I2C::set_slave_address
I2cSetSlaveAddress(slave_address) ==
    /\ i2c_open
    /\ i2c_op' = [name |-> "set_slave_address", arg |-> slave_address]
    /\ \/ /\ invalid_slave_address(i2c_addr_10bit, slave_address)
          /\ i2c_res' = Err
          /\ i2c_ioctls' = <<>>
          /\ UNCHANGED <<i2c_address, i2c_address_set>>
       \/ \* the ioctl I2C_SLAVE fails
          /\ ~invalid_slave_address(i2c_addr_10bit, slave_address)
          /\ i2c_res' = Err
          /\ i2c_ioctls' = <<[req |-> I2C_SLAVE, arg |-> slave_address]>>
          /\ UNCHANGED <<i2c_address, i2c_address_set>>
       \/ /\ ~invalid_slave_address(i2c_addr_10bit, slave_address)
          /\ i2c_res' = Ok(0)
          /\ i2c_ioctls' = <<[req |-> I2C_SLAVE, arg |-> slave_address]>>
          /\ i2c_address' = slave_address
          /\ i2c_address_set' = TRUE
    /\ i2c_bufs' = NoBufs
    /\ i2c_rdwr' = <<>>
    /\ UNCHANGED <<i2c_open, i2c_funcs, i2c_addr_10bit, notI2c>>

\* A slip that leaves out the capability test.
I2cSetAddr10bit_unchecked(enable) ==
    /\ i2c_open
    /\ i2c_op' = [name |-> "set_addr_10bit", arg |-> IF enable THEN 1 ELSE 0]
    /\ i2c_ioctls' = <<[req |-> I2C_TENBIT, arg |-> IF enable THEN 1 ELSE 0]>>
    /\ \/ /\ i2c_res' = Err
          /\ UNCHANGED i2c_addr_10bit
       \/ /\ i2c_res' = Ok(0)
          /\ i2c_addr_10bit' = enable
    /\ i2c_bufs' = NoBufs
    /\ i2c_rdwr' = <<>>
    /\ UNCHANGED <<i2c_open, i2c_funcs, i2c_address, i2c_address_set, notI2c>>

\* I2C::set_addr_10bit
I2cSetAddr10bit(enable) ==
    /\ i2c_open
    /\ i2c_op' = [name |-> "set_addr_10bit", arg |-> IF enable THEN 1 ELSE 0]
    /\ \/ /\ ~addr_10bit(i2c_funcs)
          /\ i2c_res' = Err
          /\ i2c_ioctls' = <<>>
          /\ UNCHANGED i2c_addr_10bit
       \/ \* the ioctl I2C_TENBIT fails
          /\ addr_10bit(i2c_funcs)
          /\ i2c_res' = Err
          /\ i2c_ioctls' = <<[req |-> I2C_TENBIT, arg |-> IF enable THEN 1 ELSE 0]>>
          /\ UNCHANGED i2c_addr_10bit
       \/ /\ addr_10bit(i2c_funcs)
          /\ i2c_res' = Ok(0)
          /\ i2c_ioctls' = <<[req |-> I2C_TENBIT, arg |-> IF enable THEN 1 ELSE 0]>>
          /\ i2c_addr_10bit' = enable
    /\ i2c_bufs' = NoBufs
    /\ i2c_rdwr' = <<>>
    /\ UNCHANGED <<i2c_open, i2c_funcs, i2c_address, i2c_address_set, notI2c>>

\* I2C::capabilities: the snapshot, copied out.
I2cCapabilities ==
    /\ i2c_open
    /\ i2c_op' = [name |-> "capabilities", arg |-> 0]
    /\ i2c_res' = Ok(i2c_funcs)
    /\ i2c_ioctls' = <<>>
    /\ i2c_bufs' = NoBufs
    /\ i2c_rdwr' = <<>>
    /\ UNCHANGED <<i2c_open, i2c_funcs, i2c_addr_10bit, i2c_address, i2c_address_set, notI2c>>

\* I2C::set_timeout: the argument is given in milliseconds and passed in units
\* of 10 ms, 1..9 ms rounded up to one unit.
timeout_units(timeout) == IF timeout > 0 /\ timeout < 10 THEN 1 ELSE timeout \div 10

Timeouts == {0, 5, 10, 25}

I2cSetTimeout(timeout) ==
    /\ i2c_open
    /\ i2c_op' = [name |-> "set_timeout", arg |-> timeout]
    /\ i2c_ioctls' = <<[req |-> I2C_TIMEOUT, arg |-> timeout_units(timeout)]>>
    /\ \/ i2c_res' = Err
       \/ i2c_res' = Ok(0)
    /\ i2c_bufs' = NoBufs
    /\ i2c_rdwr' = <<>>
    /\ UNCHANGED <<i2c_open, i2c_funcs, i2c_addr_10bit, i2c_address, i2c_address_set, notI2c>>

\* I2C::set_smbus_pec
I2cSetSmbusPec(enable) ==
    /\ i2c_open
    /\ i2c_op' = [name |-> "set_smbus_pec", arg |-> IF enable THEN 1 ELSE 0]
    /\ i2c_ioctls' = <<[req |-> I2C_PEC, arg |-> IF enable THEN 1 ELSE 0]>>
    /\ \/ i2c_res' = Err
       \/ i2c_res' = Ok(0)
    /\ i2c_bufs' = NoBufs
    /\ i2c_rdwr' = <<>>
    /\ UNCHANGED <<i2c_open, i2c_funcs, i2c_addr_10bit, i2c_address, i2c_address_set, notI2c>>

\* Buffers given to read, write and write_read: lengths 0..MaxBufLen, and the
\* same from 65535 on, past what a u16 holds; two addresses.
MaxBufLen == 1
I2cLens == (0..MaxBufLen) \cup {65535 + k : k \in 0..MaxBufLen}
I2cPtrs == {4096, 8192}

\* `n as u16`
AsU16(n) == n % 65536

\* I2C::read: one read(2) on the device file, whatever the object's state.
I2cRead(ptr, len) ==
    /\ i2c_open
    /\ i2c_op' = [name |-> "read", arg |-> len]
    /\ i2c_bufs' = [NoBufs EXCEPT !.rptr = ptr, !.rlen = len]
    /\ i2c_ioctls' = <<>>
    /\ i2c_rdwr' = <<>>
    /\ \/ i2c_res' = Err
       \/ \E n \in {0, len} : i2c_res' = Ok(n)
    /\ UNCHANGED <<i2c_open, i2c_funcs, i2c_addr_10bit, i2c_address, i2c_address_set, notI2c>>

\* I2C::write: one write(2) on the device file, whatever the object's state.
I2cWrite(ptr, len) ==
    /\ i2c_open
    /\ i2c_op' = [name |-> "write", arg |-> len]
    /\ i2c_bufs' = [NoBufs EXCEPT !.wptr = ptr, !.wlen = len]
    /\ i2c_ioctls' = <<>>
    /\ i2c_rdwr' = <<>>
    /\ \/ i2c_res' = Err
       \/ \E n \in {0, len} : i2c_res' = Ok(n)
    /\ UNCHANGED <<i2c_open, i2c_funcs, i2c_addr_10bit, i2c_address, i2c_address_set, notI2c>>

\* The two RdwrSegments that write_read builds.
segment_write(address, ten, ptr, len) ==
    [addr |-> address,
     flags |-> IF ten THEN RDWR_FLAG_TEN ELSE 0,
     len |-> AsU16(len),
     data |-> ptr]

segment_read(address, ten, ptr, len) ==
    [addr |-> address,
     flags |-> IF ten THEN Val(BitOr(Bits(RDWR_FLAG_RD), Bits(RDWR_FLAG_TEN))) ELSE RDWR_FLAG_RD,
     len |-> AsU16(len),
     data |-> ptr]

\* A slip that puts the read segment first.
rdwr_request_read_first(address, ten, wptr, wlen, rptr, rlen) ==
    [nmsgs |-> 2,
     segments |-> <<segment_read(address, ten, rptr, rlen),
                    segment_write(address, ten, wptr, wlen)>>]

\* The RdwrRequest of write_read: the write segment, then the read segment.
rdwr_request(address, ten, wptr, wlen, rptr, rlen) ==
    [nmsgs |-> 2,
     segments |-> <<segment_write(address, ten, wptr, wlen),
                    segment_read(address, ten, rptr, rlen)>>]

\* I2C::write_read
I2cWriteRead(wptr, wlen, rptr, rlen) ==
    /\ i2c_open
    /\ i2c_op' = [name |-> "write_read", arg |-> 0]
    /\ i2c_bufs' = [wptr |-> wptr, wlen |-> wlen, rptr |-> rptr, rlen |-> rlen]
    /\ \/ /\ (wlen = 0 \/ rlen = 0)
          /\ i2c_ioctls' = <<>>
          /\ i2c_rdwr' = <<>>
          /\ i2c_res' = Ok(0)
       \/ /\ ~(wlen = 0 \/ rlen = 0)
          /\ i2c_ioctls' = <<[req |-> I2C_RDWR, arg |-> 0]>>
          /\ i2c_rdwr' = <<rdwr_request(i2c_address, i2c_addr_10bit, wptr, wlen, rptr, rlen)>>
          /\ \/ i2c_res' = Err
             \/ i2c_res' = Ok(0)
    /\ UNCHANGED <<i2c_open, i2c_funcs, i2c_addr_10bit, i2c_address, i2c_address_set, notI2c>>

\* Dropping the I2C object closes the device.
I2cDrop ==
    /\ i2c_open
    /\ i2c_open' = FALSE
    /\ i2c_op' = [name |-> "drop", arg |-> 0]
    /\ i2c_res' = Ok(0)
    /\ i2c_ioctls' = <<>>
    /\ i2c_bufs' = NoBufs
    /\ i2c_rdwr' = <<>>
    /\ UNCHANGED <<i2c_funcs, i2c_addr_10bit, i2c_address, i2c_address_set, notI2c>>

NextI2c ==
    \/ \E funcs \in FuncsReported : I2cNew(funcs)
    \/ \E slave_address \in SlaveAddresses : I2cSetSlaveAddress(slave_address)
    \/ \E enable \in BOOLEAN : I2cSetAddr10bit(enable)
    \/ I2cCapabilities
    \/ \E timeout \in Timeouts : I2cSetTimeout(timeout)
    \/ \E enable \in BOOLEAN : I2cSetSmbusPec(enable)
    \/ \E ptr \in I2cPtrs, len \in 0..MaxBufLen : I2cRead(ptr, len)
    \/ \E ptr \in I2cPtrs, len \in 0..MaxBufLen : I2cWrite(ptr, len)
    \/ \E wptr \in I2cPtrs : \E rptr \in I2cPtrs \ {wptr} : \E wlen \in I2cLens, rlen \in I2cLens :
          I2cWriteRead(wptr, wlen, rptr, rlen)
    \/ I2cDrop

---------------------------------------------------------------------------
(* gpio.rs and pwm.rs: one GPIO pin and one PWM channel over sysfs. A file's  *)
(* contents are a sequence of characters. What a read returns is the       *)
(* kernel's choice; a write the kernel accepts to export / unexport creates *)
(* / removes the attribute directory.                                      *)

\* str::trim: the contents without leading and trailing whitespace.
WhiteSpace == {" ", "\t", "\n", "\r"}

RECURSIVE trim_start(_)
trim_start(str) ==
    IF str # <<>> /\ Head(str) \in WhiteSpace THEN trim_start(Tail(str)) ELSE str

RECURSIVE trim_end(_)
trim_end(str) ==
    IF str # <<>> /\ str[Len(str)] \in WhiteSpace
    THEN trim_end(SubSeq(str, 1, Len(str) - 1)) ELSE str

trim(str) == trim_start(trim_end(str))

Digits == <<"0", "1", "2", "3", "4", "5", "6", "7", "8", "9">>

DigitValue(c) == (CHOOSE k \in 1..10 : Digits[k] = c) - 1

IsDigit(c) == \E k \in 1..10 : Digits[k] = c

RECURSIVE DecimalValue(_)
DecimalValue(ds) ==
    IF ds = <<>> THEN 0
    ELSE 10 * DecimalValue(SubSeq(ds, 1, Len(ds) - 1)) + DigitValue(ds[Len(ds)])

\* str::parse::<u32>: an optional '+', then one or more decimal digits and nothing
\* else. The contents tried have at most 9 digits, so the value fits a u32.
parse_u32(str) ==
    LET ds == IF str # <<>> /\ Head(str) = "+" THEN Tail(str) ELSE str
    IN  IF ds # <<>> /\ \A k \in 1..Len(ds) : IsDigit(ds[k])
        THEN Ok(DecimalValue(ds))
        ELSE Err

RECURSIVE Decimal(_)
\* format!("{}", n) of an unsigned integer
Decimal(n) ==
    IF n < 10 THEN <<Digits[n + 1]>> ELSE Decimal(n \div 10) \o <<Digits[(n % 10) + 1]>>

\* enum Direction, Value, Edge as their discriminants; bool as 0 / 1
In == 0
Out == 1
Low == 2
High == 3
Directions == {In, Out, Low, High}
ValueLow == 0
ValueHigh == 1
EdgeNone == 0
Rising == 1
Falling == 2
Both == 3
Edges == {EdgeNone, Rising, Falling, Both}

\* The tokens the GPIO setters write.
direction_token(dir) ==
    CASE dir = In -> <<"i", "n">>
      [] dir = Out -> <<"o", "u", "t">>
      [] dir = High -> <<"h", "i", "g", "h">>
      [] dir = Low -> <<"l", "o", "w">>

\* A slip in Pin::set_value that writes the opposite level.
value_token_inverted(value) == IF value = ValueLow THEN <<"1">> ELSE <<"0">>

value_token(value) == IF value = ValueLow THEN <<"0">> ELSE <<"1">>

edge_token(edge) ==
    CASE edge = EdgeNone -> <<"n", "o", "n", "e">>
      [] edge = Rising -> <<"r", "i", "s", "i", "n", "g">>
      [] edge = Falling -> <<"f", "a", "l", "l", "i", "n", "g">>
      [] edge = Both -> <<"b", "o", "t", "h">>

bool_token(b) == IF b = 1 THEN <<"1">> ELSE <<"0">>

\* The getters' matches on s.trim().
parse_direction(s) ==
    LET t == trim(s)
    IN  CASE t = <<"i", "n">> -> Ok(In)
          [] t = <<"o", "u", "t">> -> Ok(Out)
          [] t = <<"h", "i", "g", "h">> -> Ok(High)
          [] t = <<"l", "o", "w">> -> Ok(Low)
          [] OTHER -> Err

parse_value(s) ==
    LET t == trim(s)
    IN  CASE t = <<"1">> -> Ok(ValueHigh)
          [] t = <<"0">> -> Ok(ValueLow)
          [] OTHER -> Err

parse_edge(s) ==
    LET t == trim(s)
    IN  CASE t = <<"n", "o", "n", "e">> -> Ok(EdgeNone)
          [] t = <<"r", "i", "s", "i", "n", "g">> -> Ok(Rising)
          [] t = <<"f", "a", "l", "l", "i", "n", "g">> -> Ok(Falling)
          [] t = <<"b", "o", "t", "h">> -> Ok(Both)
          [] OTHER -> Err

parse_active_low(s) ==
    LET t == trim(s)
    IN  CASE t = <<"1">> -> Ok(1)
          [] t = <<"0">> -> Ok(0)
          [] OTHER -> Err

\* pwm_file_parse::<u32>, once the file is read
pwm_file_parse(s) == parse_u32(trim(s))

\* Pwm::enabled: the closure mapped over pwm_file_parse's result.
enabled_result(s) ==
    LET r == pwm_file_parse(s)
    IN  IF r.tag = "Err" THEN Err
        ELSE CASE r.val = 1 -> Ok(1)
               [] r.val = 0 -> Ok(0)
               [] OTHER -> [tag |-> "Panic", val |-> 0]

\* PwmChip::count: s.parse::<u32>() on the contents as read
count_result(s) == parse_u32(s)

\* The GPIO attribute files with their getter's parser, and the setters' tokens.
GpioAttrs == {"direction", "value", "edge", "active_low"}

gpio_parse(attr, s) ==
    CASE attr = "direction" -> parse_direction(s)
      [] attr = "value" -> parse_value(s)
      [] attr = "edge" -> parse_edge(s)
      [] attr = "active_low" -> parse_active_low(s)

gpio_token(attr, v) ==
    CASE attr = "direction" -> direction_token(v)
      [] attr = "value" -> value_token(v)
      [] attr = "edge" -> edge_token(v)
      [] attr = "active_low" -> bool_token(v)

gpio_values(attr) ==
    CASE attr = "direction" -> Directions
      [] attr = "value" -> {ValueLow, ValueHigh}
      [] attr = "edge" -> Edges
      [] attr = "active_low" -> {0, 1}

\* The PWM attribute files: enable, duty_cycle, period.
PwmAttrs == {"enable", "duty_cycle", "period"}

pwm_parse(attr, s) == IF attr = "enable" THEN enabled_result(s) ELSE pwm_file_parse(s)

\* The pin's number and the PWM channel's number.
PinNum == 17
PwmNum == 1

\* Values written to duty_cycle and period: 0 .. MaxNs, and one of several digits.
MaxNs == 1
NsValues == (0..MaxNs) \cup {20000}

\* Contents the kernel may show in an attribute file.
Contents ==
    { <<>>, <<"\n">>,
      <<"0">>, <<"1">>, <<"2">>, <<"0", "\n">>, <<"1", "\n">>, <<"2", "\n">>,
      <<" ", "1", " ">>, <<"+", "1">>, <<"-", "1">>, <<"4">>, <<"4", "\n">>,
      <<"2", "0", "0", "0", "0", "\n">>, <<"1", " ", "0">>,
      <<"i", "n">>, <<"i", "n", "\n">>, <<"o", "u", "t">>, <<"o", "u", "t", "\n">>,
      <<"h", "i", "g", "h", "\n">>, <<"l", "o", "w", "\n">>,
      <<"n", "o", "n", "e", "\n">>, <<"r", "i", "s", "i", "n", "g", "\n">>,
      <<"f", "a", "l", "l", "i", "n", "g">>, <<"\t", "b", "o", "t", "h", "\n">>,
      <<"O", "U", "T">> }

InitSys ==
    /\ gpio_exported \in BOOLEAN
    /\ pwm_exported \in BOOLEAN
    /\ sys_op = [name |-> "none", arg |-> 0]
    /\ sys_read = <<>>
    /\ sys_writes = <<>>
    /\ sys_res = Ok(0)

\* A slip that leaves out the existence probe: export always writes.
GpioExport_unprobed ==
    /\ sys_op' = [name |-> "gpio_export", arg |-> PinNum]
    /\ sys_read' = <<>>
    /\ sys_writes' = <<[file |-> "gpio/export", data |-> Decimal(PinNum), ok |-> TRUE]>>
    /\ sys_res' = Ok(0)
    /\ gpio_exported' = TRUE
    /\ UNCHANGED <<pwm_exported, notSys>>

\* Pin::export
GpioExport ==
    /\ sys_op' = [name |-> "gpio_export", arg |-> PinNum]
    /\ sys_read' = <<>>
    /\ \/ /\ gpio_exported
          /\ sys_writes' = <<>>
          /\ sys_res' = Ok(0)
          /\ UNCHANGED gpio_exported
       \/ \* opening /sys/class/gpio/export fails
          /\ ~gpio_exported
          /\ sys_writes' = <<>>
          /\ sys_res' = Err
          /\ UNCHANGED gpio_exported
       \/ \* write_all fails
          /\ ~gpio_exported
          /\ sys_writes' = <<[file |-> "gpio/export", data |-> Decimal(PinNum), ok |-> FALSE]>>
          /\ sys_res' = Err
          /\ UNCHANGED gpio_exported
       \/ /\ ~gpio_exported
          /\ sys_writes' = <<[file |-> "gpio/export", data |-> Decimal(PinNum), ok |-> TRUE]>>
          /\ sys_res' = Ok(0)
          /\ gpio_exported' = TRUE
    /\ UNCHANGED <<pwm_exported, notSys>>

\* Pin::unexport
GpioUnexport ==
    /\ sys_op' = [name |-> "gpio_unexport", arg |-> PinNum]
    /\ sys_read' = <<>>
    /\ \/ /\ ~gpio_exported
          /\ sys_writes' = <<>>
          /\ sys_res' = Ok(0)
          /\ UNCHANGED gpio_exported
       \/ \* opening /sys/class/gpio/unexport fails
          /\ gpio_exported
          /\ sys_writes' = <<>>
          /\ sys_res' = Err
          /\ UNCHANGED gpio_exported
       \/ \* write_all fails
          /\ gpio_exported
          /\ sys_writes' = <<[file |-> "gpio/unexport", data |-> Decimal(PinNum), ok |-> FALSE]>>
          /\ sys_res' = Err
          /\ UNCHANGED gpio_exported
       \/ /\ gpio_exported
          /\ sys_writes' = <<[file |-> "gpio/unexport", data |-> Decimal(PinNum), ok |-> TRUE]>>
          /\ sys_res' = Ok(0)
          /\ gpio_exported' = FALSE
    /\ UNCHANGED <<pwm_exported, notSys>>

\* Pin::direction, value, edge, active_low: read_sys_file, then the match on
\* s.trim(). The file exists only while the pin is exported.
GpioGet(attr, contents) ==
    /\ sys_op' = [name |-> attr, arg |-> 0]
    /\ sys_writes' = <<>>
    /\ \/ \* File::open or read_to_string fails
          /\ sys_read' = <<>>
          /\ sys_res' = Err
       \/ /\ gpio_exported
          /\ sys_read' = contents
          /\ sys_res' = gpio_parse(attr, contents)
    /\ UNCHANGED <<gpio_exported, pwm_exported, notSys>>

\* Pin::set_direction, set_value, set_edge, set_active_low: write_sys_file
GpioSet(attr, v) ==
    /\ sys_op' = [name |-> "set_" \o attr, arg |-> v]
    /\ sys_read' = <<>>
    /\ \/ \* the open fails
          /\ sys_writes' = <<>>
          /\ sys_res' = Err
       \/ \* write_all fails
          /\ gpio_exported
          /\ sys_writes' = <<[file |-> attr, data |-> gpio_token(attr, v), ok |-> FALSE]>>
          /\ sys_res' = Err
       \/ /\ gpio_exported
          /\ sys_writes' = <<[file |-> attr, data |-> gpio_token(attr, v), ok |-> TRUE]>>
          /\ sys_res' = Ok(0)
    /\ UNCHANGED <<gpio_exported, pwm_exported, notSys>>

\* PwmChip::export (Pwm::export): the result of write_all is dropped (`let _ =`).
PwmExport ==
    /\ sys_op' = [name |-> "pwm_export", arg |-> PwmNum]
    /\ sys_read' = <<>>
    /\ \/ /\ pwm_exported
          /\ sys_writes' = <<>>
          /\ sys_res' = Ok(0)
          /\ UNCHANGED pwm_exported
       \/ \* File::create fails
          /\ ~pwm_exported
          /\ sys_writes' = <<>>
          /\ sys_res' = Err
          /\ UNCHANGED pwm_exported
       \/ \* write_all fails
          /\ ~pwm_exported
          /\ sys_writes' = <<[file |-> "pwm/export", data |-> Decimal(PwmNum), ok |-> FALSE]>>
          /\ sys_res' = Ok(0)
          /\ UNCHANGED pwm_exported
       \/ /\ ~pwm_exported
          /\ sys_writes' = <<[file |-> "pwm/export", data |-> Decimal(PwmNum), ok |-> TRUE]>>
          /\ sys_res' = Ok(0)
          /\ pwm_exported' = TRUE
    /\ UNCHANGED <<gpio_exported, notSys>>

\* PwmChip::unexport (Pwm::unexport)
PwmUnexport ==
    /\ sys_op' = [name |-> "pwm_unexport", arg |-> PwmNum]
    /\ sys_read' = <<>>
    /\ \/ /\ ~pwm_exported
          /\ sys_writes' = <<>>
          /\ sys_res' = Ok(0)
          /\ UNCHANGED pwm_exported
       \/ \* File::create fails
          /\ pwm_exported
          /\ sys_writes' = <<>>
          /\ sys_res' = Err
          /\ UNCHANGED pwm_exported
       \/ \* write_all fails
          /\ pwm_exported
          /\ sys_writes' = <<[file |-> "pwm/unexport", data |-> Decimal(PwmNum), ok |-> FALSE]>>
          /\ sys_res' = Ok(0)
          /\ UNCHANGED pwm_exported
       \/ /\ pwm_exported
          /\ sys_writes' = <<[file |-> "pwm/unexport", data |-> Decimal(PwmNum), ok |-> TRUE]>>
          /\ sys_res' = Ok(0)
          /\ pwm_exported' = FALSE
    /\ UNCHANGED <<gpio_exported, notSys>>

\* Pwm::enabled, duty_cycle_ns, period_ns: pwm_file_parse, and for enabled the
\* match that panics on a value other than 0 and 1.
PwmGet(attr, contents) ==
    /\ sys_op' = [name |-> "pwm_" \o attr, arg |-> 0]
    /\ sys_writes' = <<>>
    /\ \/ \* pwm_file_ro or read_to_string fails
          /\ sys_read' = <<>>
          /\ sys_res' = Err
       \/ /\ pwm_exported
          /\ sys_read' = contents
          /\ sys_res' = pwm_parse(attr, contents)
    /\ UNCHANGED <<gpio_exported, pwm_exported, notSys>>

\* Pwm::enable, set_duty_cycle_ns, set_period_ns
PwmSet(attr, v) ==
    /\ sys_op' = [name |-> "pwm_set_" \o attr, arg |-> v]
    /\ sys_read' = <<>>
    /\ \/ \* pwm_file_wo fails
          /\ sys_writes' = <<>>
          /\ sys_res' = Err
       \/ \* write_all fails
          /\ pwm_exported
          /\ sys_writes' = <<[file |-> "pwm/" \o attr, data |-> Decimal(v), ok |-> FALSE]>>
          /\ sys_res' = Err
       \/ /\ pwm_exported
          /\ sys_writes' = <<[file |-> "pwm/" \o attr, data |-> Decimal(v), ok |-> TRUE]>>
          /\ sys_res' = Ok(0)
    /\ UNCHANGED <<gpio_exported, pwm_exported, notSys>>

\* PwmChip::count: npwm belongs to the chip, exported channel or not.
PwmCount(contents) ==
    /\ sys_op' = [name |-> "pwm_count", arg |-> 0]
    /\ sys_writes' = <<>>
    /\ \/ \* File::open or read_to_string fails
          /\ sys_read' = <<>>
          /\ sys_res' = Err
       \/ /\ sys_read' = contents
          /\ sys_res' = count_result(contents)
    /\ UNCHANGED <<gpio_exported, pwm_exported, notSys>>

NextSys ==
    \/ GpioExport
    \/ GpioUnexport
    \/ \E attr \in GpioAttrs, contents \in Contents : GpioGet(attr, contents)
    \/ \E attr \in GpioAttrs : \E v \in gpio_values(attr) : GpioSet(attr, v)
    \/ PwmExport
    \/ PwmUnexport
    \/ \E attr \in PwmAttrs, contents \in Contents : PwmGet(attr, contents)
    \/ \E v \in 0..1 : PwmSet("enable", v)
    \/ \E attr \in {"duty_cycle", "period"}, v \in NsValues : PwmSet(attr, v)
    \/ \E contents \in Contents : PwmCount(contents)

---------------------------------------------------------------------------
(* gpio.rs: the exported pin's attribute files as a store. Each file holds *)
(* what was last written to it; a getter reads its file back.              *)

\* What the kernel shows in a freshly exported pin's files.
FreshFiles ==
    [attr \in GpioAttrs |->
        CASE attr = "direction" -> <<"i", "n", "\n">>
          [] attr = "value" -> <<"0", "\n">>
          [] attr = "edge" -> <<"n", "o", "n", "e", "\n">>
          [] attr = "active_low" -> <<"0", "\n">>]

InitAtt ==
    /\ att_files = FreshFiles
    /\ att_set = [attr \in GpioAttrs |-> {}]
    /\ att_op = [name |-> "none", attr |-> "value", arg |-> 0, io |-> TRUE]
    /\ att_res = Ok(0)

\* Pin::set_direction, set_value, set_edge, set_active_low on the store:
\* write_sys_file opens the file and writes the token.
AttSet(attr, v) ==
    /\ \/ \* the open or write_all fails
          /\ att_op' = [name |-> "set", attr |-> attr, arg |-> v, io |-> FALSE]
          /\ att_res' = Err
          /\ UNCHANGED <<att_files, att_set>>
       \/ /\ att_op' = [name |-> "set", attr |-> attr, arg |-> v, io |-> TRUE]
          /\ att_res' = Ok(0)
          /\ att_files' = [att_files EXCEPT ![attr] = gpio_token(attr, v)]
          /\ att_set' = [att_set EXCEPT ![attr] = {v}]
    /\ UNCHANGED notAtt

\* Pin::direction, value, edge, active_low on the store: read_sys_file, then
\* the match on s.trim().
AttGet(attr) ==
    /\ \/ \* File::open or read_to_string fails
          /\ att_op' = [name |-> "get", attr |-> attr, arg |-> 0, io |-> FALSE]
          /\ att_res' = Err
       \/ /\ att_op' = [name |-> "get", attr |-> attr, arg |-> 0, io |-> TRUE]
          /\ att_res' = gpio_parse(attr, att_files[attr])
    /\ UNCHANGED <<att_files, att_set, notAtt>>

NextAtt ==
    \/ \E attr \in GpioAttrs : \E v \in gpio_values(attr) : AttSet(attr, v)
    \/ \E attr \in GpioAttrs : AttGet(attr)

---------------------------------------------------------------------------
(* The specifications: one per component, the other components at rest     *)

IdleIoc ==
    /\ ioc_fn = "none"
    /\ ioc_req = [dir |-> 0, ty |-> 0, nr |-> 0, sz |-> 0]
    /\ ioc_code = {}

IdleSpi ==
    /\ spi_open = FALSE
    /\ spi_mode = 0
    /\ spi_op = [name |-> "none", arg |-> 0]
    /\ spi_res = Ok(0)

IdleXfer ==
    /\ xfer_tx = [ptr |-> {12}, len |-> {}]
    /\ xfer_rx = [ptr |-> {13}, len |-> {}]
    /\ xfer_op = "none"
    /\ xfer_res = NoTransfer

IdleSys ==
    /\ gpio_exported = FALSE
    /\ pwm_exported = FALSE
    /\ sys_op = [name |-> "none", arg |-> 0]
    /\ sys_read = <<>>
    /\ sys_writes = <<>>
    /\ sys_res = Ok(0)

InitSpecIoc == InitIoc /\ IdleSpi /\ IdleXfer /\ InitI2c /\ IdleSys /\ InitAtt
SpecIoc == InitSpecIoc /\ [][NextIoc]_vars

InitSpecSpi == InitSpi /\ IdleIoc /\ IdleXfer /\ InitI2c /\ IdleSys /\ InitAtt
SpecSpi == InitSpecSpi /\ [][NextSpi]_vars

InitSpecXfer == InitXfer /\ IdleIoc /\ IdleSpi /\ InitI2c /\ IdleSys /\ InitAtt
SpecXfer == InitSpecXfer /\ [][NextXfer]_vars

InitSpecI2c == InitI2c /\ IdleIoc /\ IdleSpi /\ IdleXfer /\ IdleSys /\ InitAtt
SpecI2c == InitSpecI2c /\ [][NextI2c]_vars

InitSpecSys == InitSys /\ IdleIoc /\ IdleSpi /\ IdleXfer /\ InitI2c /\ InitAtt
SpecSys == InitSpecSys /\ [][NextSys]_vars

InitSpecAtt == InitAtt /\ IdleIoc /\ IdleSpi /\ IdleXfer /\ InitI2c /\ IdleSys
SpecAtt == InitSpecAtt /\ [][NextAtt]_vars

---------------------------------------------------------------------------
(* The encoder's claims, under SpecIoc                                     *)

\* The field of a request code found by shifting right and masking.
Field(code, shift, mask) == Val(BitAnd(Shr(code, shift), mask))

\* The bits of value v placed at bit offset `at`.
Place(v, at) == {at + i : i \in Bits(v)}

\* C2: extracting each field of an encoded request code with its shift and mask
\* yields the operand masked to the field's width (dir 2 bits, type 8, nr 8,
\* size 14): in-range operands decode back exactly, and an out-of-range operand
\* changes no bit of another field.
C2_FieldsDecodeToMaskedOperands ==
    ioc_fn = "ioc" =>
        /\ Field(ioc_code, DIRSHIFT, DIRMASK) = ioc_req.dir % 4
        /\ Field(ioc_code, TYPESHIFT, TYPEMASK) = ioc_req.ty % 256
        /\ Field(ioc_code, NRSHIFT, NRMASK) = ioc_req.nr % 256
        /\ Field(ioc_code, SIZESHIFT, SIZEMASK) = ioc_req.sz % 16384

\* C2's case: an encoding in which the type and the size operands are both wider
\* than their fields and the direction and number are in range and not zero.
C2_Witness ==
    /\ ioc_fn = "ioc"
    /\ ioc_req.ty > 255
    /\ ioc_req.sz > 16383
    /\ ioc_req.dir = READ
    /\ ioc_req.nr = SPI_IOC_NR_MODE
    /\ ioc_code # {}

\* C3 as stated: the four fields are packed without overlap in the order, most
\* significant first, direction, type, number, size. The widths 2 + 8 + 8 + 14
\* fill the 32 bits, so that order puts size at bit 0, number at bit 14, type at
\* bit 22 and direction at bit 30.
C3_OrderDirTypeNrSize ==
    ioc_fn # "none" =>
        ioc_code = Place(ioc_req.dir % 4, 30) \cup Place(ioc_req.ty % 256, 22)
                   \cup Place(ioc_req.nr % 256, 14) \cup Place(ioc_req.sz % 16384, 0)

\* C3 amended: the four fields are packed without overlap in the order, most
\* significant first, direction, size, type, number: direction at bit 30, size at
\* bit 16, type at bit 8 and number at bit 0, each field ending where the next
\* more significant one starts.
C3_OrderDirSizeTypeNr ==
    ioc_fn # "none" =>
        /\ ioc_code = Place(ioc_req.dir % 4, 30) \cup Place(ioc_req.sz % 16384, 16)
                      \cup Place(ioc_req.ty % 256, 8) \cup Place(ioc_req.nr % 256, 0)
        /\ NRSHIFT + NRBITS = TYPESHIFT
        /\ TYPESHIFT + TYPEBITS = SIZESHIFT
        /\ SIZESHIFT + SIZEBITS = DIRSHIFT
        /\ DIRSHIFT + DIRBITS = IoctlNumBits

\* C3's case: an encoding whose four fields are all non-zero and differ.
C3_Witness ==
    /\ ioc_fn = "ioc"
    /\ ioc_req = [dir |-> WRITE, ty |-> SPI_IOC_MAGIC, nr |-> SPI_IOC_NR_MAX_SPEED_HZ, sz |-> 32]
    /\ 16 + 5 \in ioc_code

\* The request codes of include/uapi/linux/spi/spidev.h: SPI_IOC_RD_MODE is
\* 0x80016B01; a getter has direction READ (2), a setter WRITE (1); the size is 1
\* for a u8 and 4 for a u32.
LinuxSpiIoc ==
    [ get_mode_u8       |-> Hex(<<8, 0, 0, 1, 6, 11, 0, 1>>),
      set_mode_u8       |-> Hex(<<4, 0, 0, 1, 6, 11, 0, 1>>),
      get_lsb_first     |-> Hex(<<8, 0, 0, 1, 6, 11, 0, 2>>),
      set_lsb_first     |-> Hex(<<4, 0, 0, 1, 6, 11, 0, 2>>),
      get_bits_per_word |-> Hex(<<8, 0, 0, 1, 6, 11, 0, 3>>),
      set_bits_per_word |-> Hex(<<4, 0, 0, 1, 6, 11, 0, 3>>),
      get_max_speed_hz  |-> Hex(<<8, 0, 0, 4, 6, 11, 0, 4>>),
      set_max_speed_hz  |-> Hex(<<4, 0, 0, 4, 6, 11, 0, 4>>),
      get_mode_u32      |-> Hex(<<8, 0, 0, 4, 6, 11, 0, 5>>),
      set_mode32        |-> Hex(<<4, 0, 0, 4, 6, 11, 0, 5>>) ]

\* C4: the code get_mode_u8 builds (read, type 'k', number 1, size 1) is
\* 0x80016B01, and every SPI getter / setter builds the code of its kernel
\* constant: direction 2 for a getter and 1 for a setter, type 'k' (0x6B), its
\* operation number, and the byte size of its scalar.
C4_SpiRequestCodes ==
    ioc_fn \in DOMAIN LinuxSpiIoc =>
        /\ ioc_code = LinuxSpiIoc[ioc_fn]
        /\ Field(ioc_code, 30, Bits(3)) = (IF SpiIoctlFns[ioc_fn].macro = "ioctl_read" THEN 2 ELSE 1)
        /\ Field(ioc_code, 8, Bits(255)) = 107
        /\ Field(ioc_code, 16, Bits(16383)) \in {1, 4}

\* C4's case: get_mode_u8 has built its request code.
C4_Witness ==
    /\ ioc_fn = "get_mode_u8"
    /\ ioc_code = Hex(<<8, 0, 0, 1, 6, 11, 0, 1>>)

---------------------------------------------------------------------------
(* The SPI bus object's claims, under SpecSpi                              *)

\* C1: a set_mode(m) that succeeds writes a mode byte whose low two bits are m and
\* whose bits 2..7 (CS-high, LSB-first, 3-wire, loop, no-CS, ready) are those of
\* the byte the kernel held before; so the CS-high bit set by
\* set_ss_polarity(ActiveHigh) survives every later set_mode.
C1_SetModeKeepsOtherBits ==
    [][(spi_op'.name = "set_mode" /\ spi_res'.tag = "Ok") =>
          /\ spi_mode' % 4 = spi_op'.arg
          /\ spi_mode' \div 4 = spi_mode \div 4]_vars

---------------------------------------------------------------------------
(* The transfer descriptor's claims, under SpecXfer                        *)

\* C7: read_write on a tx and an rx buffer of unequal length fails at once and
\* yields no descriptor; on equal lengths it yields a descriptor whose tx and rx
\* addresses are those of the two buffers and whose len is the common length.
C7_ReadWriteDescriptor ==
    xfer_op = "read_write" =>
        IF xfer_tx.len # xfer_rx.len
        THEN xfer_res = [tag |-> "Panic", desc |-> DefaultTransfer]
        ELSE /\ xfer_res.tag = "Ok"
             /\ xfer_res.desc.tx_buf = xfer_tx.ptr
             /\ xfer_res.desc.rx_buf = xfer_rx.ptr
             /\ xfer_res.desc.len = xfer_tx.len

\* The part of C7 the code keeps for every length: unequal lengths panic, equal
\* lengths give the two addresses, and len is the common length when that is
\* below 2^32.
ReadWriteFailsFastOnUnequalLengths ==
    xfer_op = "read_write" =>
        IF xfer_tx.len # xfer_rx.len
        THEN xfer_res = [tag |-> "Panic", desc |-> DefaultTransfer]
        ELSE /\ xfer_res.tag = "Ok"
             /\ xfer_res.desc.tx_buf = xfer_tx.ptr
             /\ xfer_res.desc.rx_buf = xfer_rx.ptr
             /\ (xfer_tx.len \subseteq 0..31 => xfer_res.desc.len = xfer_tx.len)

---------------------------------------------------------------------------
(* The I2C bus object's claims, under SpecI2c                              *)

\* The ioctls a call issued are exactly one I2C_SLAVE carrying address a.
IssuedSlave(a) == i2c_ioctls = <<[req |-> 1795, arg |-> a]>>

\* The addresses whose filter result C5 checks one by one.
MaxAddrChecked == 1100

\* C5: in 7-bit mode set_slave_address accepts every address in 0x08..0x77 and
\* rejects every address in the reserved block 0x78..0x7F or above 0x7F; in
\* 10-bit mode it rejects every address above 0x3FF and accepts every address
\* 0..0x3FF. Accepting means the filter passes and the I2C_SLAVE ioctl is issued.
C5_SlaveAddressValidation ==
    /\ (i2c_op.name = "set_slave_address" /\ ~i2c_addr_10bit) =>
          /\ (i2c_op.arg \in 8..119) => IssuedSlave(i2c_op.arg)
          /\ (i2c_op.arg >= 120) => (i2c_ioctls = <<>> /\ i2c_res.tag = "Err")
    /\ (i2c_op.name = "set_slave_address" /\ i2c_addr_10bit) =>
          /\ (i2c_op.arg <= 1023) => IssuedSlave(i2c_op.arg)
          /\ (i2c_op.arg > 1023) => (i2c_ioctls = <<>> /\ i2c_res.tag = "Err")
    /\ (i2c_op.name = "set_slave_address") =>
          \A a \in (0..MaxAddrChecked) \cup {65535} :
             /\ (a \in 8..119) => ~invalid_slave_address(FALSE, a)
             /\ (a >= 120) => invalid_slave_address(FALSE, a)
             /\ invalid_slave_address(TRUE, a) <=> (a > 1023)

\* C5's case: the bus is in 10-bit mode and the top legal address 0x3FF was
\* accepted and stored.
C5_Witness ==
    /\ i2c_op = [name |-> "set_slave_address", arg |-> 1023]
    /\ i2c_addr_10bit
    /\ i2c_res.tag = "Ok"
    /\ i2c_address = 1023

\* An address out of range for the addressing mode: above 0x7F or in the
\* reserved block in 7-bit mode, above 0x3FF in 10-bit mode.
OutOfRange(ten, a) == IF ten THEN a > 1023 ELSE a >= 120

\* C6: set_slave_address on an address out of range for the current mode returns
\* an error and issues no ioctl, no other address is put in its place, and the
\* stored address and addressing width stay as they were; the stored address
\* also stays when the I2C_SLAVE ioctl fails.
C6_RejectedAddressChangesNothing ==
    [][i2c_op'.name = "set_slave_address" =>
          /\ OutOfRange(i2c_addr_10bit, i2c_op'.arg) =>
                (i2c_res'.tag = "Err" /\ i2c_ioctls' = <<>>)
          /\ \A k \in 1..Len(i2c_ioctls') :
                i2c_ioctls'[k] = [req |-> 1795, arg |-> i2c_op'.arg]
          /\ i2c_res'.tag = "Err" =>
                (i2c_address' = i2c_address /\ i2c_addr_10bit' = i2c_addr_10bit)
          /\ i2c_res'.tag = "Ok" => i2c_address' = i2c_op'.arg]_vars

\* C6's case: with 0x3FF stored in 10-bit mode, 0x400 was refused without an
\* ioctl and 0x3FF is still stored.
C6_Witness ==
    /\ i2c_op = [name |-> "set_slave_address", arg |-> 1024]
    /\ i2c_res.tag = "Err"
    /\ i2c_ioctls = <<>>
    /\ i2c_addr_10bit
    /\ i2c_address = 1023

\* The capabilities snapshot has the 10-bit-address bit (0x02).
Reports10bit(funcs) == (funcs \div 2) % 2 = 1

\* C8: on a bus whose capabilities snapshot lacks the 10-bit-address bit,
\* set_addr_10bit(true) and set_addr_10bit(false) return an error, issue no
\* I2C_TENBIT ioctl and leave addr_10bit as it was; so addr_10bit is true only on
\* a bus whose capabilities report 10-bit support.
C8_TenBitNeedsCapability ==
    /\ [][(i2c_op'.name = "set_addr_10bit" /\ ~Reports10bit(i2c_funcs)) =>
             /\ i2c_res'.tag = "Err"
             /\ i2c_ioctls' = <<>>
             /\ i2c_addr_10bit' = i2c_addr_10bit]_vars
    /\ [](i2c_addr_10bit => Reports10bit(i2c_funcs))

\* C8's case: set_addr_10bit(true) was refused on an adapter reporting 0x21.
C8_Witness ==
    /\ i2c_open
    /\ i2c_funcs = 33
    /\ i2c_op = [name |-> "set_addr_10bit", arg |-> 1]
    /\ i2c_res.tag = "Err"
    /\ i2c_ioctls = <<>>
    /\ ~i2c_addr_10bit

---------------------------------------------------------------------------
(* The GPIO pin's and the PWM channel's claims, under SpecSys              *)

\* C9: no operation of this layer aborts the process: every GPIO, PWM, I2C and
\* SPI operation returns Ok or an error, whatever the kernel shows or answers;
\* the one exception is read_write on buffers of unequal length.
C9_NoOperationPanics ==
    /\ spi_res.tag \in {"Ok", "Err"}
    /\ i2c_res.tag \in {"Ok", "Err"}
    /\ sys_res.tag \in {"Ok", "Err"}
    /\ xfer_res.tag = "Panic" => (xfer_op = "read_write" /\ xfer_tx.len # xfer_rx.len)

LifecycleOps == {"gpio_export", "gpio_unexport", "pwm_export", "pwm_unexport"}

\* export writes the index to the export file only when the attribute directory
\* is absent, unexport to the unexport file only when it is present, for the
\* GPIO pin and the PWM channel alike.
WritesOnlyWhenNeeded ==
    /\ (sys_op'.name = "gpio_export" /\ sys_writes' # <<>>) =>
          /\ ~gpio_exported
          /\ Len(sys_writes') = 1
          /\ sys_writes'[1].file = "gpio/export"
          /\ sys_writes'[1].data = <<"1", "7">>
    /\ (sys_op'.name = "gpio_unexport" /\ sys_writes' # <<>>) =>
          /\ gpio_exported
          /\ Len(sys_writes') = 1
          /\ sys_writes'[1].file = "gpio/unexport"
          /\ sys_writes'[1].data = <<"1", "7">>
    /\ (sys_op'.name = "pwm_export" /\ sys_writes' # <<>>) =>
          /\ ~pwm_exported
          /\ Len(sys_writes') = 1
          /\ sys_writes'[1].file = "pwm/export"
          /\ sys_writes'[1].data = <<"1">>
    /\ (sys_op'.name = "pwm_unexport" /\ sys_writes' # <<>>) =>
          /\ pwm_exported
          /\ Len(sys_writes') = 1
          /\ sys_writes'[1].file = "pwm/unexport"
          /\ sys_writes'[1].data = <<"1">>
    /\ (sys_op'.name \in LifecycleOps) =>
          ((gpio_exported' # gpio_exported \/ pwm_exported' # pwm_exported) =>
              (sys_writes' # <<>> /\ sys_writes'[1].ok))

TookEffect == sys_res.tag = "Ok" /\ \A k \in 1..Len(sys_writes) : sys_writes[k].ok

---------------------------------------------------------------------------
(* The attribute round trip, under SpecAtt                                 *)

\* C11: on files that store what was last written, a getter whose read succeeds
\* returns the value the last successful setter of that attribute was given, for
\* every Direction, Value, Edge and active_low value; and the token a setter
\* writes is parsed by the matching getter back to the setter's argument. After
\* set_direction(Out) and set_value(High), direction() is Out and value() is High.
C11_AttributeRoundTrip ==
    /\ \A attr \in GpioAttrs : \A v \in gpio_values(attr) :
          att_set[attr] = {v} => gpio_parse(attr, att_files[attr]) = Ok(v)
    /\ (att_op.name = "get" /\ att_op.io) =>
          \A v \in att_set[att_op.attr] : att_res = Ok(v)
    /\ (att_op.name = "set" /\ att_op.io) =>
          /\ att_res.tag = "Ok"
          /\ att_set[att_op.attr] = {att_op.arg}

\* C11's scenario: direction was set to Out, value to High, and value() has just
\* returned High.
C11_Witness ==
    /\ att_set["direction"] = {Out}
    /\ att_set["value"] = {ValueHigh}
    /\ att_op = [name |-> "get", attr |-> "value", arg |-> 0, io |-> TRUE]
    /\ att_res = Ok(ValueHigh)

---------------------------------------------------------------------------
(* The capabilities snapshot and the transfers, under SpecI2c              *)

\* The bitmasks whose predicates C12 checks one by one.
MaxMask == 127

\* Bit k of the bitmask f is set.
BitSet(f, k) == (f \div (2^k)) % 2 = 1

\* C12: each Capabilities predicate is true exactly when its own bit of the
\* snapshot is set, whatever the other bits (i2c 0x01, addr_10bit 0x02,
\* protocol_mangling 0x04, smbus_pec 0x08, nostart 0x10, slave 0x20); for 0x21
\* i2c and slave are true and addr_10bit false; and no operation on an open bus
\* changes the snapshot taken by I2C::new, which capabilities() returns.
C12_CapabilitiesSnapshot ==
    /\ [](i2c_op.name = "capabilities" =>
            /\ \A f \in 0..MaxMask :
                  /\ i2c(f) <=> BitSet(f, 0)
                  /\ addr_10bit(f) <=> BitSet(f, 1)
                  /\ protocol_mangling(f) <=> BitSet(f, 2)
                  /\ smbus_pec(f) <=> BitSet(f, 3)
                  /\ nostart(f) <=> BitSet(f, 4)
                  /\ slave(f) <=> BitSet(f, 5)
            /\ i2c(33) /\ slave(33) /\ ~addr_10bit(33)
            /\ i2c_res = Ok(i2c_funcs))
    /\ [][(i2c_open /\ i2c_open') => i2c_funcs' = i2c_funcs]_vars

\* C12's case: a bus opened on an adapter reporting 0x21 has had its address
\* set and a combined transfer done, and capabilities() still returns 0x21.
C12_Witness ==
    /\ i2c_open
    /\ i2c_address_set
    /\ i2c_funcs = 33
    /\ i2c_op.name = "capabilities"
    /\ i2c_res = Ok(33)

\* A read, write or combined transfer reached the kernel in the last call.
TransferIssued ==
    \/ i2c_op.name \in {"read", "write"}
    \/ (i2c_op.name = "write_read" /\ i2c_ioctls # <<>>)

\* C14: a Read, Write or CombinedTransfer is issued to the kernel only after the
\* bus has entered AddressSet, that is after a set_slave_address has succeeded
\* on the bus object; before that the bus is only Open.
C14_TransferOnlyAfterAddressSet ==
    TransferIssued => i2c_address_set

\* C16: every descriptor and segment carries the length of the buffer it
\* references, for every buffer length: the len of an SPI read / write
\* descriptor, and the len of both segments that write_read builds.
C16_LengthFieldIsBufferLength ==
    /\ xfer_op = "read" => xfer_res.desc.len = xfer_rx.len
    /\ xfer_op = "write" => xfer_res.desc.len = xfer_tx.len
    /\ \A k \in 1..Len(i2c_rdwr) :
          /\ i2c_rdwr[k].segments[1].len = i2c_bufs.wlen
          /\ i2c_rdwr[k].segments[2].len = i2c_bufs.rlen

\* C17: write_read on two non-empty buffers issues exactly one I2C_RDWR ioctl
\* whose request has nmsgs = 2 and whose segments are, in order, a write segment
\* (read flag clear) over the write buffer and a read segment (read flag set)
\* over the read buffer; both carry the stored slave address, and the 10-bit
\* flag exactly when the bus is in 10-bit mode. When either buffer is empty it
\* returns Ok and issues no ioctl.
C17_WriteReadSegments ==
    i2c_op.name = "write_read" =>
        IF i2c_bufs.wlen = 0 \/ i2c_bufs.rlen = 0
        THEN i2c_res.tag = "Ok" /\ i2c_ioctls = <<>> /\ i2c_rdwr = <<>>
        ELSE /\ i2c_ioctls = <<[req |-> 1799, arg |-> 0]>>
             /\ Len(i2c_rdwr) = 1
             /\ i2c_rdwr[1].nmsgs = 2
             /\ Len(i2c_rdwr[1].segments) = 2
             /\ LET w == i2c_rdwr[1].segments[1]
                    r == i2c_rdwr[1].segments[2]
                IN  /\ ~BitSet(w.flags, 0)
                    /\ w.data = i2c_bufs.wptr
                    /\ (i2c_bufs.wlen < 65536 => w.len = i2c_bufs.wlen)
                    /\ BitSet(r.flags, 0)
                    /\ r.data = i2c_bufs.rptr
                    /\ (i2c_bufs.rlen < 65536 => r.len = i2c_bufs.rlen)
                    /\ w.addr = i2c_address
                    /\ r.addr = i2c_address
                    /\ BitSet(w.flags, 4) <=> i2c_addr_10bit
                    /\ BitSet(r.flags, 4) <=> i2c_addr_10bit
                    /\ \A k \in (0..15) \ {0, 4} : ~BitSet(w.flags, k) /\ ~BitSet(r.flags, k)

\* C17's case: in 10-bit mode with 0x3FF stored, a combined transfer on two
\* one-byte buffers went to the kernel and succeeded.
C17_Witness ==
    /\ i2c_op.name = "write_read"
    /\ i2c_addr_10bit
    /\ i2c_address = 1023
    /\ i2c_bufs.wlen = 1
    /\ i2c_bufs.rlen = 1
    /\ i2c_rdwr # <<>>
    /\ i2c_res.tag = "Ok"

\* C18: the stored slave address is always valid for the stored addressing
\* width: at most 0x7F and outside 0x78..0x7F when addr_10bit is false, at most
\* 0x3FF when it is true; so write_read never builds segments with an address
\* illegal for their flags.
C18_StoredAddressFitsWidth ==
    /\ i2c_open =>
          IF i2c_addr_10bit THEN i2c_address <= 1023
          ELSE i2c_address <= 127 /\ i2c_address \notin 120..127
    /\ \A k \in 1..Len(i2c_rdwr) : \A j \in 1..2 :
          IF BitSet(i2c_rdwr[k].segments[j].flags, 4)
          THEN i2c_rdwr[k].segments[j].addr <= 1023
          ELSE i2c_rdwr[k].segments[j].addr <= 119

---------------------------------------------------------------------------
(* The sysfs readers' and writers' claims, under SpecSys                   *)

\* C13: every sysfs attribute read (GPIO direction, value, edge, active_low; PWM
\* enable, duty_cycle, period; the chip's npwm count) trims surrounding
\* whitespace before parsing: the result is that of the trimmed contents, and a
\* well-formed decimal or token followed by a newline parses to its value.
C13_EveryReadTrims ==
    /\ sys_op.name \in GpioAttrs => sys_res = gpio_parse(sys_op.name, trim(sys_read))
    /\ sys_op.name = "pwm_enable" => sys_res = pwm_parse("enable", trim(sys_read))
    /\ sys_op.name = "pwm_duty_cycle" => sys_res = pwm_parse("duty_cycle", trim(sys_read))
    /\ sys_op.name = "pwm_period" => sys_res = pwm_parse("period", trim(sys_read))
    /\ sys_op.name = "pwm_count" => sys_res = count_result(trim(sys_read))
    /\ (sys_op.name \in {"pwm_count", "pwm_period", "pwm_duty_cycle"} /\ sys_read = <<"4", "\n">>) =>
          sys_res = Ok(4)
    /\ (sys_op.name = "direction" /\ sys_read = <<"o", "u", "t", "\n">>) => sys_res = Ok(Out)

\* C15: whenever opening or writing a sysfs file fails inside an operation, the
\* operation returns an error; no operation returns Ok after one of its writes
\* failed.
C15_FailedWriteIsReported ==
    (\E k \in 1..Len(sys_writes) : ~sys_writes[k].ok) => sys_res.tag = "Err"

====
